---- MODULE Spec2Model ----
(***************************************************************************)
(* The API demo panel of weekly-recipes (src/components/RecipeApiDemo.tsx) *)
(* as a state machine: the four pieces of React state, the memoised        *)
(* endpoint set, and every callApi invocation as a small process that      *)
(* suspends at each await (fetch, then res.text() or res.json()).          *)
(*                                                                         *)
(* Strings are TLA+ strings (TLC evaluates \o, Len and SubSeq on them).    *)
(* JavaScript values are records tagged by their type in field t.          *)
(***************************************************************************)
EXTENDS Integers, Sequences, FiniteSets, TLC

VARIABLES
  envBase,    \* import.meta.env.VITE_API_BASE_URL, read once per mount
  backend,    \* useState: the backend base URL
  isLoading,  \* useState: the loading flag
  result,     \* useState: the last stored response body (a JS value)
  error,      \* useState: the last failure message (null or a string)
  endpoints,  \* useMemo: the endpoint set of the last render
  requests,   \* the callApi invocations suspended at an await, by call number:
              \* where each is suspended, the status of its response, and
              \* (history) whether another invocation was pending beside it
  issued,     \* number of fetch calls made so far
  last        \* the last event of the panel and the outcome state before it
              \* (history, for stating properties)

vars == <<envBase, backend, isLoading, result, error, endpoints, requests, issued, last>>

\* The outcome state: the three pieces of state callApi writes.
panel == [isLoading |-> isLoading, result |-> result, error |-> error]

----------------------------------------------------------------------------
(* Bounds of the model. *)

\* Total number of callApi invocations explored in one behaviour.
MaxCalls == 2

----------------------------------------------------------------------------
(* JavaScript values. *)

Undefined == [t |-> "undefined"]
Null == [t |-> "null"]
Str(s) == [t |-> "string", v |-> s]
Num(digits) == [t |-> "number", v |-> digits]
Bool(lit) == [t |-> "boolean", v |-> lit]
Arr(elems) == [t |-> "array", v |-> elems]

\* JavaScript truthiness, as used by `isLoading &&`, `error &&`, `result ?`.
Truthy(x) ==
  CASE x.t = "undefined" -> FALSE
    [] x.t = "null" -> FALSE
    [] x.t = "string" -> x.v # ""
    [] x.t = "number" -> x.v # "0"
    [] x.t = "boolean" -> x.v = "true"
    [] OTHER -> TRUE

----------------------------------------------------------------------------
(* Strings. *)

\* s contains sub as a contiguous substring.
Contains(s, sub) ==
  \E i \in 1..(Len(s) - Len(sub) + 1) : SubSeq(s, i, i + Len(sub) - 1) = sub

Digit(d) == SubSeq("0123456789", d + 1, d + 1)

\* The decimal text a template literal produces for a non-negative integer.
RECURSIVE NumberToString(_)
NumberToString(n) ==
  IF n < 10 THEN Digit(n) ELSE NumberToString(n \div 10) \o Digit(n % 10)

----------------------------------------------------------------------------
(* res.json(): the body text parsed as JSON.  The grammar covered is null,  *)
(* true, false, non-negative integers, strings without escapes and arrays   *)
(* of these, with no white space; the whole text must be consumed.          *)

CharAt(s, i) == IF i >= 1 /\ i <= Len(s) THEN SubSeq(s, i, i) ELSE ""

StartsWithAt(s, i, lit) ==
  i + Len(lit) - 1 <= Len(s) /\ SubSeq(s, i, i + Len(lit) - 1) = lit

IsDigit(c) == c \in {"0", "1", "2", "3", "4", "5", "6", "7", "8", "9"}

\* Index just after the run of digits that starts at i.
RECURSIVE DigitsEnd(_, _)
DigitsEnd(s, i) == IF IsDigit(CharAt(s, i)) THEN DigitsEnd(s, i + 1) ELSE i

\* Index of the first quote at or after i, 0 when the string is not closed.
RECURSIVE StringEnd(_, _)
StringEnd(s, i) ==
  IF i > Len(s) THEN 0
  ELSE IF CharAt(s, i) = "\"" THEN i
  ELSE StringEnd(s, i + 1)

ParseFail == [ok |-> FALSE, val |-> Undefined, next |-> 0]

ParseOk(val, next) == [ok |-> TRUE, val |-> val, next |-> next]

RECURSIVE ParseValue(_, _)
RECURSIVE ParseElements(_, _, _)
ParseValue(s, i) ==
  IF StartsWithAt(s, i, "null") THEN ParseOk(Null, i + 4)
  ELSE IF StartsWithAt(s, i, "true") THEN ParseOk(Bool("true"), i + 4)
  ELSE IF StartsWithAt(s, i, "false") THEN ParseOk(Bool("false"), i + 5)
  ELSE IF CharAt(s, i) = "0" THEN ParseOk(Num("0"), i + 1)
  ELSE IF IsDigit(CharAt(s, i))
    THEN ParseOk(Num(SubSeq(s, i, DigitsEnd(s, i) - 1)), DigitsEnd(s, i))
  ELSE IF CharAt(s, i) = "\""
    THEN LET q == StringEnd(s, i + 1)
         IN  IF q = 0 THEN ParseFail ELSE ParseOk(Str(SubSeq(s, i + 1, q - 1)), q + 1)
  ELSE IF CharAt(s, i) = "["
    THEN IF CharAt(s, i + 1) = "]" THEN ParseOk(Arr(<<>>), i + 2)
         ELSE ParseElements(s, i + 1, <<>>)
  ELSE ParseFail

ParseElements(s, i, acc) ==
  LET r == ParseValue(s, i)
  IN  IF ~r.ok THEN ParseFail
      ELSE IF CharAt(s, r.next) = "," THEN ParseElements(s, r.next + 1, Append(acc, r.val))
      ELSE IF CharAt(s, r.next) = "]" THEN ParseOk(Arr(Append(acc, r.val)), r.next + 1)
      ELSE ParseFail

\* JSON.parse of a whole body: [ok, val].
JsonParse(s) ==
  LET r == ParseValue(s, 1)
  IN  IF r.ok /\ r.next = Len(s) + 1 THEN ParseOk(r.val, r.next) ELSE ParseFail

\* The message of the SyntaxError res.json() rejects with (V8's wording).
SyntaxErrorMessage(text) ==
  IF text = "" THEN "Unexpected end of JSON input" ELSE "Unexpected token in JSON"

----------------------------------------------------------------------------
(* The network: what a fetch can answer. *)

\* HTTP status codes a response may carry.
Statuses == {200, 204, 404, 500}

\* Response.ok: the status is in the 2xx range.
ResOk(status) == status >= 200 /\ status <= 299

\* Body texts a response may carry.
Bodies == {"null", "0", "[1,\"Soup\"]", "not found", ""}

\* Descriptions of the TypeError a failed fetch or body read rejects with.
TransportErrors == {"Failed to fetch", "Load failed"}

----------------------------------------------------------------------------
(* The panel's inputs. *)

\* Values VITE_API_BASE_URL may have at mount: unset, or a base URL.
EnvBases == {Undefined, Str("http://env:9000")}

DefaultBackend == "http://localhost:3000"

\* The <option> values of the backend <select> in the current render.
SelectOptions ==
  (IF Truthy(envBase) THEN {envBase.v} ELSE {})
    \cup {"http://localhost:3000", "http://localhost:8080", "custom"}

\* Texts the user may leave in the free-text field.
TypedTexts == {"http://h:1"}

\* The fixed date of the weekly-plan button.
SampleDate == "2025-08-25"

\* The RequestInit of the create-recipe button: JSON.stringify of the sample.
CreateInit ==
  [ method |-> "POST",
    contentType |-> "application/json",
    body |-> "{\"name\":\"Miso Soup\",\"steps\":\"Boil dashi, add miso.\",\"ingredients\":[{\"name\":\"miso\",\"quantity\":30,\"unit\":\"GRAM\"}]}" ]

\* callApi(url) with no init: fetch defaults to a GET with no body.
NoInit == Undefined

----------------------------------------------------------------------------
(* Rendering: the endpoint set and what the panel shows. *)

\* The memoised endpoint set computed from a backend value; weeklyPlan is a
\* closure over that value.
MakeEndpoints(b) ==
  [ listRecipes |-> b \o "/api/recipes",
    createRecipe |-> b \o "/api/recipes",
    weeklyPlan |-> b ]

WeeklyPlan(e, date) == e.weeklyPlan \o "/api/weeks/" \o date \o "/plan"

ShowsLoading == isLoading
ShowsError == Truthy(error)
ShowsResult == Truthy(result)

\* The call numbers of the requests that have not settled yet.
Outstanding == DOMAIN requests

----------------------------------------------------------------------------
(* Initial state: the panel right after mounting. *)

Init ==
  /\ envBase \in EnvBases
  /\ backend = (IF envBase.t \in {"undefined", "null"} THEN DefaultBackend ELSE envBase.v)
  /\ isLoading = FALSE
  /\ result = Null
  /\ error = Null
  /\ endpoints = MakeEndpoints(backend)
  /\ requests = <<>>
  /\ issued = 0
  /\ last = [kind |-> "mount", before |-> panel]

----------------------------------------------------------------------------
(* Backend selection. *)

\* (History) which controls wrote the backend in the run of backend inputs
\* that ends with the last event: the latest two, oldest first.
InputsBefore == IF last.kind = "setBackend" THEN last.inputs ELSE <<>>

LatestTwo(s) == IF Len(s) > 2 THEN Tail(s) ELSE s

\* A backend change after which the memoised endpoints are not recomputed
\* (a dependency list that misses backend).
SetBackendStaleEndpoints(value, via) ==
  /\ backend' = value
  /\ last' = [kind |-> "setBackend", value |-> value, via |-> via,
              inputs |-> LatestTwo(Append(InputsBefore, via)), before |-> panel]
  /\ UNCHANGED <<envBase, endpoints, isLoading, result, error, requests, issued>>

\* A backend change that also resets the outcome state.
SetBackendResettingOutcome(value, via) ==
  /\ backend' = value
  /\ endpoints' = MakeEndpoints(value)
  /\ result' = Null
  /\ error' = Null
  /\ last' = [kind |-> "setBackend", value |-> value, via |-> via,
              inputs |-> LatestTwo(Append(InputsBefore, via)), before |-> panel]
  /\ UNCHANGED <<envBase, isLoading, requests, issued>>

\* setBackend(value) followed by the re-render that recomputes the memo.
SetBackend(value, via) ==
  /\ backend' = value
  /\ endpoints' = MakeEndpoints(value)
  /\ last' = [kind |-> "setBackend", value |-> value, via |-> via,
              inputs |-> LatestTwo(Append(InputsBefore, via)), before |-> panel]
  /\ UNCHANGED <<envBase, isLoading, result, error, requests, issued>>

\* Lines 68-81: onChange of the dropdown.
SelectBackend == \E value \in SelectOptions : SetBackend(value, "select")

\* A free-text field that is honoured only while the dropdown shows "custom".
TypeBackendOnlyWhenCustom ==
  \E value \in TypedTexts :
    IF backend = "custom"
      THEN SetBackend(value, "input")
      ELSE /\ last' = [kind |-> "setBackend", value |-> value, via |-> "input",
                       inputs |-> LatestTwo(Append(InputsBefore, "input")),
                       before |-> panel]
           /\ UNCHANGED <<envBase, backend, endpoints, isLoading, result, error,
                          requests, issued>>

\* Lines 86-90: onChange of the free-text field.
TypeBackend == \E value \in TypedTexts : SetBackend(value, "input")

----------------------------------------------------------------------------
(* callApi, one action per segment between awaits. *)

Remove(id) == [i \in (DOMAIN requests) \ {id} |-> requests[i]]

\* callApi without its setIsLoading(true).
CallStartWithoutLoading ==
  /\ error' = Null
  /\ UNCHANGED <<isLoading, result>>

\* Lines 41-44: the synchronous part, up to the suspended fetch.
CallStart ==
  /\ isLoading' = TRUE
  /\ error' = Null
  /\ UNCHANGED result

callApi(op, url, init) ==
  /\ issued < MaxCalls
  /\ CallStart
  /\ issued' = issued + 1
  /\ requests' = [i \in DOMAIN requests |-> [requests[i] EXCEPT !.overlapped = TRUE]]
                    @@ ((issued + 1) :> [pc |-> "fetch", status |-> 0,
                                         overlapped |-> DOMAIN requests # {}])
  /\ last' = [kind |-> "callApi", id |-> issued + 1, op |-> op, url |-> url,
              init |-> init, inputs |-> InputsBefore, before |-> panel]
  /\ UNCHANGED <<envBase, backend, endpoints>>

\* The catch block without its setResult(null).
CatchFinallyKeepingResult(msg) ==
  /\ error' = Str(msg)
  /\ isLoading' = FALSE
  /\ UNCHANGED result

\* Lines 52-58: catch (setError, setResult(null)) and finally.
CatchFinally(msg) ==
  /\ error' = Str(msg)
  /\ result' = Null
  /\ isLoading' = FALSE

\* The success path with setIsLoading(false) left out of it (no finally).
StoreWithoutFinally(json) ==
  /\ result' = json
  /\ UNCHANGED <<isLoading, error>>

\* The success path without its setResult(json).
StoreFinallyWithoutResult(json) ==
  /\ isLoading' = FALSE
  /\ UNCHANGED <<result, error>>

\* Lines 51, 56-58: setResult(json) and finally.
StoreFinally(json) ==
  /\ result' = json
  /\ isLoading' = FALSE
  /\ UNCHANGED error

\* The HTTP error message without the response body.
HttpErrorMessageWithoutBody(status, text) == "HTTP " \o NumberToString(status)

\* Line 48: the message of the Error thrown for a non-2xx response.
HttpErrorMessage(status, text) == "HTTP " \o NumberToString(status) \o ": " \o text

Settle(id, outcome) ==
  /\ requests' = Remove(id)
  /\ last' = [kind |-> "settled", id |-> id, overlapped |-> requests[id].overlapped,
              before |-> panel] @@ outcome
  /\ UNCHANGED <<envBase, backend, endpoints, issued>>

\* Line 44: the fetch promise fulfils with a response carrying a status.
FetchResolves(id, status) ==
  /\ id \in DOMAIN requests
  /\ requests[id].pc = "fetch"
  /\ requests' = [requests EXCEPT ![id].pc = IF ResOk(status) THEN "json" ELSE "text",
                                  ![id].status = status]
  /\ last' = [kind |-> "response", id |-> id, status |-> status, before |-> panel]
  /\ UNCHANGED <<envBase, backend, endpoints, issued, isLoading, result, error>>

\* A rejected fetch that is retried once more before the failure is shown.
FetchRejectsRetrying(id, desc) ==
  /\ id \in DOMAIN requests
  /\ requests[id].pc = "fetch"
  /\ IF issued < MaxCalls
       THEN /\ issued' = issued + 1
            /\ requests' = Remove(id) @@ ((issued + 1) :> requests[id])
            /\ last' = [kind |-> "settled", id |-> id, overlapped |-> requests[id].overlapped,
                        before |-> panel, outcome |-> "transport", stage |-> "fetch",
                        msg |-> desc]
            /\ UNCHANGED <<envBase, backend, endpoints, isLoading, result, error>>
       ELSE /\ CatchFinally(desc)
            /\ Settle(id, [outcome |-> "transport", stage |-> "fetch", msg |-> desc])

\* A rejected fetch that is handled only when it belongs to the latest call
\* (request-identity tracking, which callApi does not do).
FetchRejectsLatestOnly(id, desc) ==
  /\ id \in DOMAIN requests
  /\ requests[id].pc = "fetch"
  /\ IF id = issued THEN CatchFinally(desc) ELSE UNCHANGED <<isLoading, result, error>>
  /\ Settle(id, [outcome |-> "transport", stage |-> "fetch", msg |-> desc])

\* Line 44: the fetch promise rejects (transport error).
FetchRejects(id, desc) ==
  /\ id \in DOMAIN requests
  /\ requests[id].pc = "fetch"
  /\ CatchFinally(desc)
  /\ Settle(id, [outcome |-> "transport", stage |-> "fetch", msg |-> desc])

\* Lines 47-48: res.text() fulfils; the HTTP error is thrown and caught.
TextResolves(id, text) ==
  /\ id \in DOMAIN requests
  /\ requests[id].pc = "text"
  /\ CatchFinally(HttpErrorMessage(requests[id].status, text))
  /\ Settle(id, [outcome |-> "http", status |-> requests[id].status, text |-> text])

\* Line 47: res.text() rejects (the body could not be read).
TextRejects(id, desc) ==
  /\ id \in DOMAIN requests
  /\ requests[id].pc = "text"
  /\ CatchFinally(desc)
  /\ Settle(id, [outcome |-> "transport", stage |-> "text",
                 status |-> requests[id].status, msg |-> desc])

\* res.json() whose decode error is swallowed: only the finally block runs.
JsonResolvesDroppingDecodeError(id, text) ==
  /\ id \in DOMAIN requests
  /\ requests[id].pc = "json"
  /\ IF JsonParse(text).ok
       THEN /\ StoreFinally(JsonParse(text).val)
            /\ Settle(id, [outcome |-> "success", status |-> requests[id].status, text |-> text])
       ELSE /\ isLoading' = FALSE
            /\ UNCHANGED <<result, error>>
            /\ Settle(id, [outcome |-> "decode", status |-> requests[id].status, text |-> text])

\* Lines 50-51: res.json() fulfils with the parsed body, or rejects with a
\* SyntaxError when the body is not JSON.
JsonResolves(id, text) ==
  /\ id \in DOMAIN requests
  /\ requests[id].pc = "json"
  /\ IF JsonParse(text).ok
       THEN /\ StoreFinally(JsonParse(text).val)
            /\ Settle(id, [outcome |-> "success", status |-> requests[id].status, text |-> text])
       ELSE /\ CatchFinally(SyntaxErrorMessage(text))
            /\ Settle(id, [outcome |-> "decode", status |-> requests[id].status, text |-> text])

\* Line 50: res.json() rejects because the body could not be read.
JsonRejects(id, desc) ==
  /\ id \in DOMAIN requests
  /\ requests[id].pc = "json"
  /\ CatchFinally(desc)
  /\ Settle(id, [outcome |-> "transport", stage |-> "json",
                 status |-> requests[id].status, msg |-> desc])

----------------------------------------------------------------------------
(* The three action triggers. *)

\* Line 98: onClick of "GET /api/recipes".
TriggerListRecipes == callApi("listRecipes", endpoints.listRecipes, NoInit)

\* Lines 106-116: onClick of "POST /api/recipes".
TriggerCreateRecipe == callApi("createRecipe", endpoints.createRecipe, CreateInit)

\* Line 124: onClick of "GET /api/weeks/2025-08-25/plan".
TriggerWeeklyPlan == callApi("weeklyPlan", WeeklyPlan(endpoints, SampleDate), NoInit)

\* The list-recipes button without its disabled={isLoading}.
ClickListRecipesNeverDisabled == TriggerListRecipes

\* The buttons as rendered: a disabled button delivers no click.
ClickListRecipes == ~isLoading /\ TriggerListRecipes
ClickCreateRecipe == ~isLoading /\ TriggerCreateRecipe
ClickWeeklyPlan == ~isLoading /\ TriggerWeeklyPlan

----------------------------------------------------------------------------
(* Specifications. *)

Network ==
  \/ \E id \in DOMAIN requests, status \in Statuses : FetchResolves(id, status)
  \/ \E id \in DOMAIN requests, desc \in TransportErrors : FetchRejects(id, desc)
  \/ \E id \in DOMAIN requests, text \in Bodies : TextResolves(id, text)
  \/ \E id \in DOMAIN requests, desc \in TransportErrors : TextRejects(id, desc)
  \/ \E id \in DOMAIN requests, text \in Bodies : JsonResolves(id, text)
  \/ \E id \in DOMAIN requests, desc \in TransportErrors : JsonRejects(id, desc)

\* The panel at its contract: callApi may be entered while a request is pending.
Next ==
  \/ SelectBackend
  \/ TypeBackend
  \/ TriggerListRecipes
  \/ TriggerCreateRecipe
  \/ TriggerWeeklyPlan
  \/ Network

Spec == Init /\ [][Next]_vars

\* The panel when every issued request eventually resolves: each pending
\* fetch, res.text() and res.json() promise is eventually settled and its
\* continuation run by the event loop.  Triggers stop, as at most MaxCalls
\* are made.  The backend is left as mounted: backend inputs write nothing
\* that callApi's state updates read.
FairNext ==
  \/ TriggerListRecipes
  \/ TriggerCreateRecipe
  \/ TriggerWeeklyPlan
  \/ Network

FairSpec == Init /\ [][FairNext]_vars /\ WF_vars(Network)

\* The panel behind its buttons, which are disabled while isLoading.
GuardedNext ==
  \/ SelectBackend
  \/ TypeBackend
  \/ ClickListRecipes
  \/ ClickCreateRecipe
  \/ ClickWeeklyPlan
  \/ Network

GuardedSpec == Init /\ [][GuardedNext]_vars

\* The scenario of one GET action triggered twice in immediate succession
\* against an unreachable host: every fetch is rejected.
TriggerSameGetAgain ==
  /\ last.kind = "callApi"
  /\ \/ last.op = "listRecipes" /\ TriggerListRecipes
     \/ last.op = "weeklyPlan" /\ TriggerWeeklyPlan

DoubleGetNext ==
  \/ SelectBackend
  \/ TypeBackend
  \/ issued = 0 /\ TriggerListRecipes
  \/ issued = 0 /\ TriggerWeeklyPlan
  \/ TriggerSameGetAgain
  \/ \E id \in DOMAIN requests, desc \in TransportErrors : FetchRejects(id, desc)

DoubleGetSpec == Init /\ [][DoubleGetNext]_vars

----------------------------------------------------------------------------
(* Properties. *)

\* The last event is the settling of a request whose body text was read.
SettledWithBody == last.kind = "settled" /\ last.outcome \in {"success", "decode", "http"}

\* The decimal text of the status codes of the model, written out.
StatusText(status) ==
  CASE status = 200 -> "200"
    [] status = 204 -> "204"
    [] status = 404 -> "404"
    [] status = 500 -> "500"

\* The outcome state a request settling as event ev produces when it is the
\* only request and starts from the idle panel.
AloneOutcome(ev) ==
  CASE ev.outcome = "success" ->
         [isLoading |-> FALSE, result |-> JsonParse(ev.text).val, error |-> Null]
    [] ev.outcome = "http" ->
         [isLoading |-> FALSE, result |-> Null,
          error |-> Str("HTTP " \o StatusText(ev.status) \o ": " \o ev.text)]
    [] ev.outcome = "decode" ->
         [isLoading |-> FALSE, result |-> Null, error |-> Str(SyntaxErrorMessage(ev.text))]
    [] ev.outcome = "transport" ->
         [isLoading |-> FALSE, result |-> Null, error |-> Str(ev.msg)]

\* C1: after a trigger accepted from Idle, Success or Failure, and until that
\* request resolves, the panel is Loading with error empty and result empty.
\* (Behind the buttons a request is outstanding exactly from its trigger to
\* its resolution.)
TriggerClearsErrorAndResult ==
  Outstanding # {} => (isLoading /\ error = Null /\ result = Null)

\* C2: after any completed attempt exactly one of result and error is
\* non-empty.
ExactlyOneOfResultAndError ==
  last.kind = "settled" => ((result # Null) # (error # Null))

\* C3: in every reachable state the panel shows at most one of the loading
\* indicator, the result and the failure message.  (What is shown is
\* non-empty: a violation is one of the claim read on the state as well.)
OneOutcomeLive ==
  /\ ~(ShowsLoading /\ ShowsResult)
  /\ ~(ShowsLoading /\ ShowsError)
  /\ ~(ShowsResult /\ ShowsError)

\* C4: when requests overlapped, the outcome state once all have settled is
\* exactly what the last-resolving request alone would have produced.
LastToResolveWins ==
  (last.kind = "settled" /\ last.overlapped /\ Outstanding = {})
    => panel = AloneOutcome(last)

\* C5: whenever at least one issued request has not resolved, isLoading is true.
LoadingWhileOutstanding == Outstanding # {} => isLoading

\* C6: once an action has been triggered the panel is never Idle again:
\* never isLoading false with both result and error empty.
NeverBackToIdle ==
  issued > 0 => ~(~isLoading /\ result = Null /\ error = Null)

\* C7: a trigger accepted while no request is outstanding leaves the panel
\* Loading in the very state the trigger produces, with its fetch unresolved.
TriggerSetsLoadingSynchronously ==
  (last.kind = "callApi" /\ Outstanding = {last.id})
    => (isLoading /\ requests[last.id].pc = "fetch")

\* C7 witness: the create-recipe trigger taken from a panel that was not
\* loading, its request the only one outstanding.
TriggerSetsLoadingSynchronouslyWitness ==
  /\ last.kind = "callApi"
  /\ last.op = "createRecipe"
  /\ ~last.before.isLoading
  /\ Outstanding = {last.id}
  /\ isLoading

\* C8: a request that resolves from Loading with a 2xx status and a body that
\* parses as JSON leaves result equal to the parsed body, error empty and
\* isLoading false.
SuccessStoresParsedBody ==
  (SettledWithBody /\ ResOk(last.status) /\ JsonParse(last.text).ok /\ last.before.isLoading)
    => /\ result = JsonParse(last.text).val
       /\ (last.text = "[1,\"Soup\"]" => result = Arr(<<Num("1"), Str("Soup")>>))
       /\ (last.text = "null" => result = Null)
       /\ error = Null
       /\ ~isLoading

\* C8 witness: status 200 with body [1,"Soup"] has just been stored from Loading.
SuccessStoresParsedBodyWitness ==
  /\ SettledWithBody
  /\ last.status = 200
  /\ last.text = "[1,\"Soup\"]"
  /\ last.before.isLoading
  /\ result = Arr(<<Num("1"), Str("Soup")>>)
  /\ error = Null
  /\ ~isLoading

\* C9: a request that resolves with a status outside 2xx and its body text
\* leaves Failure: the message contains the status code and the body text,
\* and result is empty.
HttpFailureEmbedsStatusAndBody ==
  (SettledWithBody /\ ~ResOk(last.status))
    => /\ error.t = "string"
       /\ Contains(error.v, StatusText(last.status))
       /\ Contains(error.v, last.text)
       /\ result = Null
       /\ ~isLoading

\* C9 witness: status 404 with body "not found" has just settled.
HttpFailureEmbedsStatusAndBodyWitness ==
  /\ SettledWithBody
  /\ last.status = 404
  /\ last.text = "not found"
  /\ error = Str("HTTP 404: not found")
  /\ result = Null
  /\ ~isLoading

\* C10: a transport error leaves Failure: the message contains the error's
\* description and result is empty, whatever result was before.
TransportFailureClearsResult ==
  (last.kind = "settled" /\ last.outcome = "transport")
    => /\ error.t = "string"
       /\ Contains(error.v, last.msg)
       /\ result = Null
       /\ ~isLoading

\* C10 witness: the fetch itself was rejected while an earlier Success result
\* was still stored.
TransportFailureClearsResultWitness ==
  /\ last.kind = "settled"
  /\ last.outcome = "transport"
  /\ last.stage = "fetch"
  /\ last.before.result # Null
  /\ error = Str(last.msg)
  /\ result = Null
  /\ ~isLoading

\* C11: a request that resolves with a 2xx status and a body that does not
\* parse as JSON leaves Failure as a transport error does: error is the decode
\* error's description, result is empty and isLoading is false.
DecodeErrorIsFailure ==
  (SettledWithBody /\ ResOk(last.status) /\ ~JsonParse(last.text).ok)
    => /\ error = Str(SyntaxErrorMessage(last.text))
       /\ (last.text = "" => error = Str("Unexpected end of JSON input"))
       /\ (last.text = "not found" => error = Str("Unexpected token in JSON"))
       /\ panel = AloneOutcome([outcome |-> "transport", msg |-> error.v])
       /\ result = Null
       /\ ~isLoading

\* C11 witness: status 200 with body `not found` has just settled over an
\* earlier Success result.
DecodeErrorIsFailureWitness ==
  /\ SettledWithBody
  /\ last.status = 200
  /\ last.text = "not found"
  /\ last.before.result # Null
  /\ error = Str("Unexpected token in JSON")
  /\ result = Null
  /\ ~isLoading

\* C12: the same GET triggered twice in immediate succession against an
\* unreachable host leaves Failure once both requests have settled, in either
\* resolution order: error is the message of the request that resolved last,
\* result is empty and isLoading is false.
DoubleGetEndsInFailure ==
  (issued >= 2 /\ Outstanding = {})
    => /\ error.t = "string"
       /\ error.v \in TransportErrors
       /\ (last.kind = "settled" => (last.outcome = "transport" /\ error = Str(last.msg)))
       /\ result = Null
       /\ ~isLoading

\* C12 witness: the first of the two requests resolved last, after the second
\* had already failed with another message.
DoubleGetEndsInFailureWitness ==
  /\ issued = 2
  /\ Outstanding = {}
  /\ last.kind = "settled"
  /\ last.id = 1
  /\ last.overlapped
  /\ last.before.error = Str("Load failed")
  /\ error = Str("Failed to fetch")
  /\ result = Null
  /\ ~isLoading

\* C13: a change of the backend address, by the dropdown or the free-text
\* field, issues no HTTP call and leaves isLoading, result, error and every
\* request in flight as they were; it writes the backend alone.
BackendChangeIssuesNothing ==
  [][last'.kind = "setBackend"
       => /\ backend' = last'.value
          /\ issued' = issued
          /\ requests' = requests
          /\ isLoading' = isLoading
          /\ result' = result
          /\ error' = error]_vars

\* C13 witness: the dropdown has just been changed while a request was in
\* flight and an earlier result was stored; nothing of the outcome moved.
BackendChangeIssuesNothingWitness ==
  /\ last.kind = "setBackend"
  /\ last.via = "select"
  /\ backend = "http://localhost:8080"
  /\ Outstanding # {}
  /\ isLoading
  /\ result # Null
  /\ panel = last.before

\* The two paths the buttons request, written out.
ButtonPaths == {"/api/recipes", "/api/weeks/2025-08-25/plan"}

\* C14: the backend is last-write-wins between the dropdown and the free-text
\* field: each input overwrites it, nothing else writes it, and a dispatched
\* call uses exactly the current backend as its base URL.
LastBackendInputWins ==
  [][/\ (last'.kind = "setBackend" => backend' = last'.value)
     /\ (last'.kind # "setBackend" => backend' = backend)
     /\ (last'.kind = "callApi"
           => \E path \in ButtonPaths : last'.url = backend \o path)]_vars

\* C14 witness: a dropdown choice, then a free-text entry, then a trigger: the
\* call dispatched uses the free-text value.
LastBackendInputWinsWitness ==
  /\ last.kind = "callApi"
  /\ last.inputs = <<"select", "input">>
  /\ backend = "http://h:1"
  /\ last.url = "http://h:1/api/recipes"

\* C15: each accepted trigger makes exactly one fetch call and no other
\* event makes any: a trigger step raises the number of fetch calls by one
\* and suspends one new invocation at its fetch; every other step (a backend
\* change, a response, a resolution of any kind) leaves the number unchanged
\* and starts no invocation.
OneFetchPerTrigger ==
  [][IF last'.kind = "callApi"
       THEN /\ issued' = issued + 1
            /\ DOMAIN requests' = DOMAIN requests \cup {issued'}
            /\ requests'[issued'].pc = "fetch"
       ELSE /\ issued' = issued
            /\ DOMAIN requests' \subseteq DOMAIN requests]_vars

\* C15 witness: two triggers, the second failed by a transport error on its
\* own, and nothing is in flight: two fetch calls, no retry.
OneFetchPerTriggerWitness ==
  /\ issued = 2
  /\ Outstanding = {}
  /\ last.kind = "settled"
  /\ last.outcome = "transport"
  /\ ~last.overlapped
  /\ error = Str(last.msg)

\* C16: when triggers are accepted only while isLoading is false (the
\* disabled buttons), at most one request is outstanding in every reachable
\* state and isLoading is true exactly when one is.
GuardKeepsOneRequest ==
  /\ Cardinality(Outstanding) <= 1
  /\ isLoading <=> Outstanding # {}

\* C16 witness: the second request, accepted after the first had resolved, is
\* the only one outstanding and the panel is loading.
GuardKeepsOneRequestWitness ==
  /\ issued = 2
  /\ Outstanding = {2}
  /\ isLoading
  /\ last.kind = "response"

\* C17: every resolution of a request (success, non-2xx, transport error,
\* decode error) leaves isLoading false; and when every issued request
\* eventually resolves and triggers stop, the panel eventually leaves Loading
\* for good.
ResolutionEndsLoading ==
  /\ [](last.kind = "settled" => ~isLoading)
  /\ <>[](~isLoading)

\* C17 witness: the last of the calls has just resolved from Loading, nothing
\* is outstanding and the panel is not loading.
ResolutionEndsLoadingWitness ==
  /\ issued = MaxCalls
  /\ Outstanding = {}
  /\ last.kind = "settled"
  /\ last.before.isLoading
  /\ ~isLoading

\* The HTTP method and body fetch uses for a RequestInit.
MethodOf(init) == IF init = Undefined THEN "GET" ELSE init.method

BodyOf(init) == IF init = Undefined THEN Undefined ELSE Str(init.body)

\* C18: each trigger requests what its action derives from the backend
\* current at trigger time: list recipes a GET of <backend>/api/recipes with
\* no body, create recipe a POST of the same URL with the sample recipe as
\* JSON body, weekly plan a GET of <backend>/api/weeks/2025-08-25/plan; and
\* the endpoint set in use is always that of the current backend.
RequestDerivedFromBackend ==
  /\ endpoints.listRecipes = backend \o "/api/recipes"
  /\ endpoints.createRecipe = backend \o "/api/recipes"
  /\ endpoints.weeklyPlan = backend
  /\ last.kind = "callApi" =>
       CASE last.op = "listRecipes" ->
              /\ last.url = backend \o "/api/recipes"
              /\ MethodOf(last.init) = "GET"
              /\ BodyOf(last.init) = Undefined
         [] last.op = "createRecipe" ->
              /\ last.url = backend \o "/api/recipes"
              /\ MethodOf(last.init) = "POST"
              /\ last.init.contentType = "application/json"
              /\ BodyOf(last.init) = Str("{\"name\":\"Miso Soup\",\"steps\":\"Boil dashi, add miso.\",\"ingredients\":[{\"name\":\"miso\",\"quantity\":30,\"unit\":\"GRAM\"}]}")
         [] last.op = "weeklyPlan" ->
              /\ last.url = backend \o "/api/weeks/2025-08-25/plan"
              /\ MethodOf(last.init) = "GET"
              /\ BodyOf(last.init) = Undefined

\* C18 witness: the weekly plan triggered right after the dropdown was set to
\* the Spring backend requests the plan from that backend.
RequestDerivedFromBackendWitness ==
  /\ last.kind = "callApi"
  /\ last.op = "weeklyPlan"
  /\ last.inputs # <<>>
  /\ backend = "http://localhost:8080"
  /\ last.url = "http://localhost:8080/api/weeks/2025-08-25/plan"
  /\ last.init = Undefined

====
